---- MODULE Spec2Model ----
(***************************************************************************)
(* A model of dayone_export/__init__.py: the journal assembly pipeline     *)
(* (parse_journal) and the filter / group / yield pipeline of              *)
(* dayone_export.                                                          *)
(*                                                                         *)
(* Conventions of the model:                                               *)
(*  - an Entry's data dictionary is a function from field names to values; *)
(*    "k in entry" is  k \in DOMAIN e;                                     *)
(*  - a Python dict is the sequence of its values in insertion order (the  *)
(*    interpreter is Python 3.7+: dicts keep insertion order, filter()     *)
(*    returns a lazy iterator, not a list);                                *)
(*  - None is the empty sequence <<>>, a present value v is <<v>>;         *)
(*  - a datetime is [wall |-> wall clock, tzinfo |-> None or <<offset>>];   *)
(*    the instant an aware one denotes is wall - offset, in utc; Creation  *)
(*    Date, always naive, is held as its wall clock alone;                 *)
(*  - a time zone is known by its identifier; Offset gives its utc offset, *)
(*    and a tzinfo object is that offset;                                  *)
(*  - the photo correlation, the field flattening and the template engine  *)
(*    are left out: no checked property reads them.                        *)
(***************************************************************************)
EXTENDS Integers, Sequences, FiniteSets, TLC

VARIABLES
    pc,             \* where the program is
    listing,        \* os.listdir(entries): the entry files seen so far, in order
    jdict,          \* parse_journal: the dict `journal` (values, insertion order)
    entry,          \* parse_journal: the loop's local `entry` (<<>>: unbound)
    journal,        \* the list parse_journal returns
    err,            \* the exception raised, "none" if none
    opts,           \* dayone_export: its keyword arguments
    after,          \* dayone_export: local `after` once converted
    before,         \* dayone_export: local `before` once converted
    jdate,          \* what _filter_by_date returned: [kind, items]
    jtag,           \* `j` after the tag inclusion step
    jexcl,          \* `j` after the tag exclusion step
    j,              \* dayone_export: local `j` at the grouping loop
    output_groups,  \* dayone_export: the defaultdict, as <<[key, entries]>>
    yielded         \* the (key, journal-to-render) pairs yielded so far

vars == <<pc, listing, jdict, entry, journal, err, opts, after, before, jdate,
          jtag, jexcl, j, output_groups, yielded>>

----------------------------------------------------------------------------
(* Bounds of the model *)

MaxFiles == 3

MaxEntries == 3

MaxTime == 3

Times == 1..MaxTime

UUIDs == 1..MaxFiles

ZoneNames == {"East", "West"}

----------------------------------------------------------------------------
(* Values *)

None == <<>>

Some(v) == <<v>>

\* The utc offset of a time zone identifier.  pytz.timezone raises
\* UnknownTimeZoneError for an unknown identifier and set_localized_date then
\* uses utc; 'utc' itself is utc.
Offset(timezone) ==
    CASE timezone = "East" -> 1
      [] timezone = "West" -> -1
      [] OTHER -> 0

\* A decoded plist: UUID always, the other fields when given.
Plist(uuid, cd, tz, tags) ==
    LET base == "UUID" :> uuid
        withCD == IF cd = None THEN base ELSE base @@ ("Creation Date" :> cd[1])
        withTZ == IF tz = None THEN withCD ELSE withCD @@ ("Time Zone" :> tz[1])
    IN  IF tags = None THEN withTZ ELSE withTZ @@ ("Tags" :> tags[1])

\* The entry files a journal folder of the assembly model may hold: well
\* formed ones, and ones whose record lacks Creation Date.
WellFormedFiles ==
    { Plist(u, Some(t), tz, None) :
        u \in UUIDs, t \in Times, tz \in {None} \cup {Some(z) : z \in ZoneNames} }

MalformedFiles == { Plist(u, None, None, None) : u \in {1} }

EntryFiles == WellFormedFiles \cup MalformedFiles

IsWellFormed(file) == "Creation Date" \in DOMAIN file

----------------------------------------------------------------------------
(* Entry *)

\* Entry.__init__: [ok, entry]; ok is FALSE when KeyError("Creation Date")
\* is raised.
EntryInit(file) ==
    IF "Creation Date" \notin DOMAIN file
    THEN [ok |-> FALSE, entry |-> file]
    ELSE [ok |-> TRUE, entry |-> file]

\* Entry.set_time_zone
set_time_zone(e, timezone) ==
    IF "Time Zone" \in DOMAIN e
    THEN [e EXCEPT !["Time Zone"] = timezone]
    ELSE e @@ ("Time Zone" :> timezone)

\* datetime.astimezone on an aware datetime: the same instant, on the wall
\* clock of the zone whose utc offset is off.
astimezone(dt, off) ==
    [wall |-> dt.wall - dt.tzinfo[1] + off, tzinfo |-> Some(off)]

\* tz.localize on a naive datetime: the same wall clock, in the zone.
localize(off, dt) == [wall |-> dt.wall, tzinfo |-> Some(off)]

\* Entry.set_localized_date: the Creation Date, read as utc, in the zone.
set_localized_date(e, timezone) ==
    LET tz == Offset(timezone)
        localized_utc == localize(0, [wall |-> e["Creation Date"], tzinfo |-> None])
        date == astimezone(localized_utc, tz)
    IN  IF "Date" \in DOMAIN e
        THEN [e EXCEPT !["Date"] = date]
        ELSE e @@ ("Date" :> date)

----------------------------------------------------------------------------
(* parse_journal *)

\* journal[key] = value on a dict kept as its values in insertion order: an
\* existing key keeps its place, a new key goes last.
DictSet(d, value) ==
    IF \E i \in 1..Len(d) : d[i]["UUID"] = value["UUID"]
    THEN [i \in 1..Len(d) |->
            IF d[i]["UUID"] = value["UUID"] THEN value ELSE d[i]]
    ELSE Append(d, value)

\* One iteration of the loop over the entries directory.  st is
\* [jdict, entry, err]; a KeyError of Entry() is passed over, leaving the
\* local `entry` as it was, and the assignment that follows reads it.
ScanStep(st, file) ==
    LET r == EntryInit(file)
        bound == IF r.ok THEN Some(r.entry) ELSE st.entry
    IN  IF bound = None
        THEN [jdict |-> st.jdict, entry |-> bound, err |-> "UnboundLocalError"]
        ELSE [jdict |-> DictSet(st.jdict, bound[1]), entry |-> bound,
              err |-> "none"]

\* As InsertSorted, the element going before its equals: an unstable sort.
RECURSIVE InsertSortedBefore(_, _)
InsertSortedBefore(sorted, e) ==
    IF sorted = <<>> THEN <<e>>
    ELSE IF sorted[Len(sorted)]["Creation Date"] < e["Creation Date"]
         THEN Append(sorted, e)
         ELSE Append(InsertSortedBefore(SubSeq(sorted, 1, Len(sorted) - 1), e),
                     sorted[Len(sorted)])

\* list.sort(key=itemgetter('Creation Date')): a stable sort, here by
\* insertion after the last element that is not greater.
RECURSIVE InsertSorted(_, _)
InsertSorted(sorted, e) ==
    IF sorted = <<>> THEN <<e>>
    ELSE IF sorted[Len(sorted)]["Creation Date"] <= e["Creation Date"]
         THEN Append(sorted, e)
         ELSE Append(InsertSorted(SubSeq(sorted, 1, Len(sorted) - 1), e),
                     sorted[Len(sorted)])

RECURSIVE SortFrom(_, _, _)
SortFrom(s, i, acc) ==
    IF i > Len(s) THEN acc ELSE SortFrom(s, i + 1, InsertSorted(acc, s[i]))

SortByCreationDate(s) == SortFrom(s, 1, <<>>)

\* As NewestTz, the search for a declaring entry forgotten.
NewestTzDefault(s) == "utc"

\* The first loop over reversed(journal): the zone of the latest entry that
\* has one, 'utc' if none has.
RECURSIVE NewestTzFrom(_, _)
NewestTzFrom(s, i) ==
    IF i = 0 THEN "utc"
    ELSE IF "Time Zone" \in DOMAIN s[i] THEN s[i]["Time Zone"]
         ELSE NewestTzFrom(s, i - 1)

NewestTz(s) == NewestTzFrom(s, Len(s))

\* The second loop over reversed(journal), from index i down, tz being the
\* loop's running zone.
RECURSIVE FillFrom(_, _, _)
FillFrom(s, i, tz) ==
    IF i = 0 THEN s
    ELSE LET e == s[i]
             declared == "Time Zone" \in DOMAIN e
             tz2 == IF declared THEN e["Time Zone"] ELSE tz
             e2 == IF declared THEN e ELSE set_time_zone(e, tz2)
         IN  FillFrom([s EXCEPT ![i] = set_localized_date(e2, tz2)], i - 1, tz2)

AddTimezoneInfo(s) == FillFrom(s, Len(s), NewestTz(s))

\* parse_journal after the loop over the directory: [err, journal].
ParseFinish(d) ==
    IF Len(d) = 0
    THEN [err |-> "EmptyJournal", journal |-> <<>>]
    ELSE [err |-> "none", journal |-> AddTimezoneInfo(SortByCreationDate(d))]

\* The loop over a whole directory listing.
RECURSIVE ScanFrom(_, _, _)
ScanFrom(files, i, st) ==
    IF i > Len(files) \/ st.err # "none" THEN st
    ELSE ScanFrom(files, i + 1, ScanStep(st, files[i]))

ScanStart == [jdict |-> <<>>, entry |-> None, err |-> "none"]

\* parse_journal as a whole: [err, journal].
ParseJournal(files) ==
    LET st == ScanFrom(files, 1, ScanStart)
    IN  IF st.err # "none" THEN [err |-> st.err, journal |-> <<>>]
        ELSE ParseFinish(st.jdict)

----------------------------------------------------------------------------
(* The assembly specification: parse_journal, one directory entry at a time *)

NoOpts == [after |-> None, before |-> None, tags |-> None, exclude |-> None,
           reverse |-> FALSE, filename_template |-> ""]

EmptyJ == [kind |-> "list", items |-> <<>>]

ExportIdle ==
    /\ opts = NoOpts
    /\ after = None
    /\ before = None
    /\ jdate = EmptyJ
    /\ jtag = EmptyJ
    /\ jexcl = EmptyJ
    /\ j = EmptyJ
    /\ output_groups = <<>>
    /\ yielded = <<>>

Init ==
    /\ pc = "scan"
    /\ listing = <<>>
    /\ jdict = <<>>
    /\ entry = None
    /\ journal = <<>>
    /\ err = "none"
    /\ ExportIdle

exportVars == <<opts, after, before, jdate, jtag, jexcl, j, output_groups,
                yielded>>

\* Identifiers are only ever compared for equality, so the files of a listing
\* name a new identifier by the next unused number.
FreshUUID(files) ==
    LET used == { files[i]["UUID"] : i \in { k \in 1..Len(files) : IsWellFormed(files[k]) } }
    IN  Cardinality(used) + 1

\* The body of the for loop, on the next file of the listing.
ScanFile ==
    /\ pc = "scan"
    /\ Len(listing) < MaxFiles
    /\ \E file \in { f \in EntryFiles : f["UUID"] <= FreshUUID(listing) } :
        \E st \in {ScanStep([jdict |-> jdict, entry |-> entry, err |-> "none"],
                            file)} :
            /\ listing' = Append(listing, file)
            /\ jdict' = st.jdict
            /\ entry' = st.entry
            /\ err' = st.err
            /\ pc' = IF st.err = "none" THEN "scan" ELSE "raised"
    /\ UNCHANGED <<journal, exportVars>>

\* The listing is exhausted: the empty check, the sort, the time zones.
FinishParse ==
    /\ pc = "scan"
    /\ \E r \in {ParseFinish(jdict)} :
           /\ err' = r.err
           /\ journal' = r.journal
           /\ pc' = IF r.err = "none" THEN "returned" ELSE "raised"
    /\ UNCHANGED <<listing, jdict, entry, exportVars>>

Next == ScanFile \/ FinishParse

Spec == Init /\ [][Next]_vars

----------------------------------------------------------------------------
(* The filters of dayone_export *)

\* The `tags` and `exclude` arguments: the string 'any', or a list of tags.
Str(x) == [type |-> "str", val |-> <<x>>]

List(l) == [type |-> "list", val |-> l]

SetOf(seq) == { seq[i] : i \in 1..Len(seq) }

AsList(items) == [kind |-> "list", items |-> items]

\* The lazy iterator filter() returns: the items it will produce.
AsFilter(items) == [kind |-> "filter", items |-> items]

\* _filter_by_tag
_filter_by_tag(jrnl, tags) ==
    LET any_filter(item) == "Tags" \in DOMAIN item
        tag_filter(item) ==
            /\ "Tags" \in DOMAIN item
            /\ SetOf(item["Tags"]) \cap SetOf(tags.val) # {}
    IN  IF tags = Str("any")
        THEN AsFilter(SelectSeq(jrnl.items, any_filter))
        ELSE AsFilter(SelectSeq(jrnl.items, tag_filter))

\* _exclude_tags
_exclude_tags(jrnl, tags) ==
    LET remain_filter(item) ==
            \/ "Tags" \notin DOMAIN item
            \/ SetOf(item["Tags"]) \cap SetOf(tags.val) = {}
    IN  AsFilter(SelectSeq(jrnl.items, remain_filter))

\* As _filter_by_date, the upper bound taken as inclusive.
_filter_by_date_inclusive(jrnl, aft, bef) ==
    LET keep(item) ==
            /\ aft = None \/ item["Creation Date"] >= aft[1]
            /\ bef = None \/ item["Creation Date"] <= bef[1]
    IN  IF aft = None /\ bef = None THEN jrnl
        ELSE AsList(SelectSeq(jrnl.items, keep))

\* _filter_by_date: the bounds are None or <<a naive utc wall clock>>.
_filter_by_date(jrnl, aft, bef) ==
    LET keep(item) ==
            /\ aft = None \/ item["Creation Date"] >= aft[1]
            /\ bef = None \/ item["Creation Date"] < bef[1]
    IN  IF aft = None /\ bef = None THEN jrnl
        ELSE AsList(SelectSeq(jrnl.items, keep))

\* _convert_to_utc: date is None or <<a datetime>>.  The datetime that
\* date.astimezone(pytz.utc) returns is dropped, datetimes being immutable;
\* what is returned is date.replace(tzinfo=None), held as its wall clock.
_convert_to_utc(date, default_tz) ==
    IF date = None THEN date
    ELSE LET d == IF date[1].tzinfo = None
                  THEN localize(default_tz, date[1])
                  ELSE date[1]
             dropped == astimezone(d, 0)
         IN  Some(d.wall)

\* datetime.strftime on a localized date, for the two templates of the
\* model: the empty one, and '%d', the day of the wall clock, a day being
\* two time units.
strftime(date, filename_template) ==
    IF filename_template = "" THEN ""
    ELSE "d" \o ToString(date.wall \div 2)

----------------------------------------------------------------------------
(* The output grouper *)

\* As GroupAppend, a new group opened whenever the key changes.
GroupAppendOnChange(groups, key, e) ==
    IF groups # <<>> /\ groups[Len(groups)].key = key
    THEN [groups EXCEPT ![Len(groups)].entries = Append(@, e)]
    ELSE Append(groups, [key |-> key, entries |-> <<e>>])

\* output_groups[key].append(e) on the defaultdict(list), kept as its
\* (key, list) items in insertion order.
GroupAppend(groups, key, e) ==
    IF \E g \in 1..Len(groups) : groups[g].key = key
    THEN [g \in 1..Len(groups) |->
            IF groups[g].key = key
            THEN [groups[g] EXCEPT !.entries = Append(@, e)]
            ELSE groups[g]]
    ELSE Append(groups, [key |-> key, entries |-> <<e>>])

\* The grouping loop over j, from index i on.
RECURSIVE GroupFrom(_, _, _, _)
GroupFrom(items, i, filename_template, groups) ==
    IF i > Len(items) THEN groups
    ELSE GroupFrom(items, i + 1, filename_template,
                   GroupAppend(groups,
                               strftime(items[i]["Date"], filename_template),
                               items[i]))

OutputGroups(items, filename_template) ==
    GroupFrom(items, 1, filename_template, <<>>)

Reversed(s) == [i \in 1..Len(s) |-> s[Len(s) + 1 - i]]

\* j.reverse(): a list has it, the iterator filter() returns has not.
ReverseStep(jrnl) ==
    IF jrnl.kind = "list"
    THEN [err |-> "none", j |-> AsList(Reversed(jrnl.items))]
    ELSE [err |-> "AttributeError", j |-> jrnl]

\* The body of dayone_export from the call of parse_journal to the end of the
\* grouping loop, on the listing of the folder and the arguments o: every
\* local it leaves, and the exception raised if any.
ExportBody(files, o) ==
    LET parsed == ParseJournal(files)
        jp == AsList(parsed.journal)
        default_tz == jp.items[Len(jp.items)]["Date"].tzinfo[1]
        aft == _convert_to_utc(o.after, default_tz)
        bef == _convert_to_utc(o.before, default_tz)
        jd == _filter_by_date(jp, aft, bef)
        jt == IF o.tags # None THEN _filter_by_tag(jd, o.tags[1]) ELSE jd
        jx == IF o.exclude # None THEN _exclude_tags(jt, o.exclude[1]) ELSE jt
        rv == IF o.reverse THEN ReverseStep(jx) ELSE [err |-> "none", j |-> jx]
        idle == [err |-> parsed.err, journal |-> parsed.journal,
                 after |-> None, before |-> None, jdate |-> EmptyJ,
                 jtag |-> EmptyJ, jexcl |-> EmptyJ, j |-> EmptyJ,
                 output_groups |-> <<>>]
    IN  IF parsed.err # "none" THEN idle
        ELSE [err |-> rv.err, journal |-> parsed.journal,
              after |-> aft, before |-> bef, jdate |-> jd, jtag |-> jt,
              jexcl |-> jx, j |-> rv.j,
              output_groups |->
                  IF rv.err # "none" THEN <<>>
                  ELSE OutputGroups(rv.j.items, o.filename_template)]

----------------------------------------------------------------------------
(* The export specifications: the generator dayone_export returns, resumed *)
(* one next() at a time, on a folder and arguments fixed at the call       *)

\* The first next(): the body runs to its first yield, or to its end, or to
\* an exception.
FirstNext ==
    /\ pc = "called"
    /\ \E r \in {ExportBody(listing, opts)} :
           /\ err' = r.err
           /\ journal' = r.journal
           /\ after' = r.after
           /\ before' = r.before
           /\ jdate' = r.jdate
           /\ jtag' = r.jtag
           /\ jexcl' = r.jexcl
           /\ j' = r.j
           /\ output_groups' = r.output_groups
           /\ yielded' = IF r.output_groups = <<>> THEN <<>>
                         ELSE <<r.output_groups[1]>>
           /\ pc' = IF r.err # "none" THEN "raised"
                    ELSE IF r.output_groups = <<>> THEN "done"
                    ELSE "yielded"
    /\ UNCHANGED <<listing, jdict, entry, opts>>

\* A later next(): the loop over output_groups yields its next pair, or ends.
LaterNext ==
    /\ pc = "yielded"
    /\ IF Len(yielded) < Len(output_groups)
       THEN /\ yielded' = Append(yielded, output_groups[Len(yielded) + 1])
            /\ pc' = "yielded"
       ELSE /\ yielded' = yielded
            /\ pc' = "done"
    /\ UNCHANGED <<listing, jdict, entry, journal, err, opts, after, before,
                   jdate, jtag, jexcl, j, output_groups>>

NextExport == FirstNext \/ LaterNext

\* The listings of n well formed files of distinct identifiers, already in
\* the order of their Creation Dates, their other fields drawn from zones
\* and taglists.
SortedListings(n, zones, taglists) ==
    { l \in [1..n -> { Plist(0, Some(t), tz, tg) :
                          t \in Times, tz \in zones, tg \in taglists }] :
        \A i \in 1..(n - 1) : l[i]["Creation Date"] <= l[i + 1]["Creation Date"] }

Numbered(l) == [i \in 1..Len(l) |-> [l[i] EXCEPT !["UUID"] = i]]

Folders(zones, taglists) ==
    UNION { { Numbered(l) : l \in SortedListings(n, zones, taglists) } :
            n \in 1..MaxEntries }

InitCall(folders, options) ==
    /\ pc = "called"
    /\ listing \in folders
    /\ opts \in options
    /\ jdict = <<>>
    /\ entry = None
    /\ journal = <<>>
    /\ err = "none"
    /\ after = None
    /\ before = None
    /\ jdate = EmptyJ
    /\ jtag = EmptyJ
    /\ jexcl = EmptyJ
    /\ j = EmptyJ
    /\ output_groups = <<>>
    /\ yielded = <<>>

\* Date bounds: absent, naive, or aware in a zone.
DateBounds(zones) ==
    {None} \cup { Some([wall |-> t, tzinfo |-> tz]) :
                    t \in Times, tz \in {None} \cup { Some(Offset(z)) : z \in zones } }

\* The date filter alone, on journals whose zones differ.
InitDate ==
    InitCall(Folders({None, Some("East"), Some("West")}, {None}),
             [after : DateBounds({"East"}), before : DateBounds({"East"}),
              tags : {None}, exclude : {None}, reverse : {FALSE},
              filename_template : {""}])

SpecDate == InitDate /\ [][NextExport]_vars

\* The tag inclusion filter alone, on journals whose tags differ.
InitTag ==
    InitCall(Folders({None},
                     {None, Some(<<>>), Some(<<"a">>), Some(<<"b">>),
                      Some(<<"a", "b">>)}),
             [after : {None}, before : {None},
              tags : {Some(Str("any")), Some(List(<<"a">>)),
                      Some(List(<<"b", "c">>))},
              exclude : {None}, reverse : {FALSE}, filename_template : {""}])

SpecTag == InitTag /\ [][NextExport]_vars

\* The grouper, on journals whose zones put neighbouring entries on
\* different days, with and without a lazy filter and a reversal before it.
InitGroup ==
    InitCall(Folders({Some("East"), Some("West")}, {None, Some(<<"a">>)}),
             [after : {None}, before : {None},
              tags : {None, Some(Str("any"))}, exclude : {None},
              reverse : BOOLEAN, filename_template : {"", "%d"}])

SpecGroup == InitGroup /\ [][NextExport]_vars

\* Every step of the pipeline together.
InitExport ==
    InitCall(Folders({None, Some("East")}, {None, Some(<<"a">>), Some(<<"b">>)}),
             [after : {None, Some([wall |-> 2, tzinfo |-> None])},
              before : {None, Some([wall |-> 3, tzinfo |-> None])},
              tags : {None, Some(Str("any")), Some(List(<<"a">>))},
              exclude : {None, Some(List(<<"b">>))},
              reverse : BOOLEAN, filename_template : {"", "%d"}])

SpecExport == InitExport /\ [][NextExport]_vars

----------------------------------------------------------------------------
(* What the listing says, for the properties of the assembly *)

WellFormedIdx == { i \in 1..Len(listing) : IsWellFormed(listing[i]) }

WellFormedUUIDs == { listing[i]["UUID"] : i \in WellFormedIdx }

FilesOf(uuid) == { i \in WellFormedIdx : listing[i]["UUID"] = uuid }

MinOf(S) == CHOOSE x \in S : \A y \in S : x <= y

MaxOf(S) == CHOOSE x \in S : \A y \in S : x >= y

\* The record an identifier ends with: that of its last well formed file.
LastFileOf(uuid) == listing[MaxOf(FilesOf(uuid))]

\* The place in the listing where an identifier is first met.
FirstSeen(uuid) == MinOf(FilesOf(uuid))

\* The record behind the k-th entry of the returned journal.
RawOf(k) == LastFileOf(journal[k]["UUID"])

Declaring == { k \in 1..Len(journal) : "Time Zone" \in DOMAIN RawOf(k) }

\* The zone the backward fill gives to the i-th entry of the sorted journal.
ExpectedZone(i) ==
    IF i \in Declaring THEN RawOf(i)["Time Zone"]
    ELSE IF \E k \in Declaring : k > i
         THEN RawOf(MinOf({ k \in Declaring : k > i }))["Time Zone"]
         ELSE IF Declaring # {} THEN RawOf(MaxOf(Declaring))["Time Zone"]
              ELSE "utc"

\* C1: once parse_journal has returned, every entry has a Time Zone: its own
\* if its record declares one, else that of the nearest later declaring
\* entry of the sorted journal, else that of the latest declaring entry of
\* the journal, else 'utc'.
C1_BackwardFill ==
    pc = "returned" =>
        \A i \in 1..Len(journal) :
            /\ "Time Zone" \in DOMAIN journal[i]
            /\ journal[i]["Time Zone"] = ExpectedZone(i)

\* Three entries at increasing times, only the middle one declaring a zone:
\* all three have it.
C1_Witness ==
    /\ pc = "returned"
    /\ Len(journal) = 3
    /\ journal[1]["Creation Date"] < journal[2]["Creation Date"]
    /\ journal[2]["Creation Date"] < journal[3]["Creation Date"]
    /\ Declaring = {2}
    /\ \A i \in 1..3 : journal[i]["Time Zone"] = "East"

\* C2: a file without Creation Date is dropped silently wherever it falls in
\* the listing: assembly fails only for want of any well formed file, and
\* the journal returned holds exactly the well formed files' entries, one per
\* identifier.
C2_MalformedDropped ==
    /\ err # "UnboundLocalError"
    /\ pc = "returned" =>
        /\ Len(journal) = Cardinality(WellFormedUUIDs)
        /\ { journal[i]["UUID"] : i \in 1..Len(journal) } = WellFormedUUIDs
        /\ \A i \in 1..Len(journal) :
            journal[i]["Creation Date"] = RawOf(i)["Creation Date"]

\* C3: the journal returned is sorted non-decreasing by Creation Date, and
\* entries of equal Creation Date are in the order their identifiers were
\* first met in the listing.
C3_SortedStable ==
    pc = "returned" =>
        \A a, b \in 1..Len(journal) :
            a < b =>
                /\ journal[a]["Creation Date"] <= journal[b]["Creation Date"]
                /\ journal[a]["Creation Date"] = journal[b]["Creation Date"]
                    => FirstSeen(journal[a]["UUID"]) < FirstSeen(journal[b]["UUID"])

\* A tie between an identifier met first and overwritten last, and one met
\* in between.
C3_Witness ==
    /\ pc = "returned"
    /\ Len(listing) = 3
    /\ Len(journal) = 2
    /\ \A i \in 1..3 : IsWellFormed(listing[i])
    /\ listing[1]["UUID"] = listing[3]["UUID"]
    /\ listing[1]["Creation Date"] # listing[3]["Creation Date"]
    /\ journal[1]["Creation Date"] = journal[2]["Creation Date"]
    /\ journal[1]["UUID"] = listing[1]["UUID"]

\* C4: when no entry survives (no entry file, or every file lacking Creation
\* Date) parse_journal fails with the 'No journal entries found' error, and
\* with no other; it never returns an empty journal.
C4_EmptyJournal ==
    /\ (pc \in {"raised", "returned"} /\ WellFormedIdx = {}) =>
            (pc = "raised" /\ err = "EmptyJournal")
    /\ pc = "returned" => Len(journal) > 0

----------------------------------------------------------------------------
(* Properties of the export *)

Ran == pc \in {"yielded", "done"}

\* out is the elements of inp at the places K, in their order.
Picks(out, inp, K) ==
    /\ Len(out) = Cardinality(K)
    /\ \A i \in K : out[Cardinality({ k \in K : k <= i })] = inp[i]

\* The utc offset of the journal's default zone: that of the localized date
\* of its last entry.
DefaultOffset == journal[Len(journal)]["Date"].tzinfo[1]

\* The instant a supplied bound denotes, as a naive utc wall clock.
UtcInstant(date) ==
    IF date = None THEN None
    ELSE IF date[1].tzinfo = None
         THEN Some(date[1].wall - DefaultOffset)
         ELSE Some(date[1].wall - date[1].tzinfo[1])

\* C5: the bounds compared against Creation Date are the utc instants of the
\* bounds supplied: a naive one read in the journal's default zone, an aware
\* one in its own; an absent one stays absent.
C5_BoundsInUtc ==
    Ran => /\ after = UtcInstant(opts.after)
           /\ before = UtcInstant(opts.before)

\* C6: with the empty filename_template, a run to its end has yielded exactly
\* one pair, of key "" and of the whole of j.
C6_OnePair ==
    (pc = "done" /\ opts.filename_template = "") =>
        /\ Len(yielded) = 1
        /\ yielded[1].key = ""
        /\ yielded[1].entries = j.items

KeyOf(e) == strftime(e["Date"], opts.filename_template)

PlacesOf(key) == { i \in 1..Len(j.items) : KeyOf(j.items[i]) = key }

InRange(e) ==
    /\ after = None \/ e["Creation Date"] >= after[1]
    /\ before = None \/ e["Creation Date"] < before[1]

\* C8: _filter_by_date returns the entries at or after `after` and before
\* `before`, an absent bound not restricting, in their order.
C8_DateFilter ==
    Ran => Picks(jdate.items, journal,
                 { i \in 1..Len(journal) : InRange(journal[i]) })

\* Both bounds given, an entry at `after` kept and one at `before` dropped.
C8_Witness ==
    /\ Ran
    /\ after # None
    /\ before # None
    /\ \E i \in 1..Len(jdate.items) : jdate.items[i]["Creation Date"] = after[1]
    /\ \E i \in 1..Len(journal) : journal[i]["Creation Date"] = before[1]
    /\ \A i \in 1..Len(jdate.items) : jdate.items[i]["Creation Date"] # before[1]

HasTagFor(e, tags) ==
    /\ "Tags" \in DOMAIN e
    /\ IF tags = Str("any") THEN Len(e["Tags"]) > 0
       ELSE \E i \in 1..Len(e["Tags"]) : \E k \in 1..Len(tags.val) :
                e["Tags"][i] = tags.val[k]

\* C9: _filter_by_tag returns, for 'any', the entries that have at least one
\* tag, and for a tag list those whose tags meet it.
C9_TagFilter ==
    (Ran /\ opts.tags # None) =>
        Picks(jtag.items, jdate.items,
              { i \in 1..Len(jdate.items) : HasTagFor(jdate.items[i], opts.tags[1]) })

\* The groups of the same call without reverse.
ForwardGroups == OutputGroups(jexcl.items, opts.filename_template)

\* C10: with reverse, whatever the filters, the call runs as without it, on
\* the filtered sequence reversed: the same keys, each with the same entries
\* in reverse order.
C10_ReverseOnlyOrder ==
    opts.reverse =>
        /\ pc # "raised"
        /\ Ran =>
            /\ j.items = Reversed(jexcl.items)
            /\ { output_groups[g].key : g \in 1..Len(output_groups) }
                 = { ForwardGroups[g].key : g \in 1..Len(ForwardGroups) }
            /\ \A g \in 1..Len(output_groups) : \A f \in 1..Len(ForwardGroups) :
                output_groups[g].key = ForwardGroups[f].key =>
                    output_groups[g].entries = Reversed(ForwardGroups[f].entries)

====
